---- MODULE Spec2Model ----
(***************************************************************************)
(* Model of Attrition.py: a Streamlit script that loads a table of         *)
(* warranty contracts, one-hot encodes it, mines frequent itemsets         *)
(* (apriori), derives association rules, renders the rule sets as text,    *)
(* filters the rules by a selected item and a minimum confidence, and      *)
(* exports the filtered rules as CSV.                                      *)
(*                                                                         *)
(* Text is a sequence of one-character strings, so that joining,           *)
(* splitting, pattern search and CSV quoting are computed character by     *)
(* character.  Supports and confidences are IEEE-754 doubles, computed      *)
(* with correctly rounded division on 53-bit mantissas, so that the        *)
(* threshold comparisons are the ones the script makes.  Of the metric     *)
(* columns of a rule the model keeps the three supports and the            *)
(* confidence; lift, leverage, conviction and Zhang's metric are further   *)
(* functions of the three supports and are left out.                       *)
(***************************************************************************)
EXTENDS Integers, Sequences, FiniteSets, TLC

(* ------------------------------------------------------------------ *)
(* Bounds of the model                                                 *)
(* ------------------------------------------------------------------ *)

\* Largest number of copies of the first row of a table.
MaxRows == 10

\* Fractional digits kept when a metric is written as decimal text.
FracDigits == 2

(* ------------------------------------------------------------------ *)
(* Text                                                                *)
(* ------------------------------------------------------------------ *)

\* Code point of a character: the order Python compares strings by.
Ord(c) ==
  CASE c = "\n" -> 10
    [] c = " "  -> 32
    [] c = "\"" -> 34
    [] c = ","  -> 44
    [] c = "-"  -> 45
    [] c = "."  -> 46
    [] c = "0"  -> 48
    [] c = "1"  -> 49
    [] c = "2"  -> 50
    [] c = "3"  -> 51
    [] c = "4"  -> 52
    [] c = "5"  -> 53
    [] c = "6"  -> 54
    [] c = "7"  -> 55
    [] c = "8"  -> 56
    [] c = "9"  -> 57
    [] c = "C"  -> 67
    [] c = "N"  -> 78
    [] c = "R"  -> 82
    [] c = "_"  -> 95
    [] OTHER    -> 97 + (CHOOSE k \in 0..25 : c = SubSeq(
                     <<"a","b","c","d","e","f","g","h","i","j","k","l","m",
                       "n","o","p","q","r","s","t","u","v","w","x","y","z">>,
                     k + 1, k + 1)[1])

\* s < t in Python's string order (lexicographic by code point).
RECURSIVE StrLess(_, _)
StrLess(s, t) ==
  IF t = <<>> THEN FALSE
  ELSE IF s = <<>> THEN TRUE
  ELSE IF Ord(Head(s)) # Ord(Head(t)) THEN Ord(Head(s)) < Ord(Head(t))
  ELSE StrLess(Tail(s), Tail(t))

\* sorted(S) for a finite set S of texts.
RECURSIVE SortedTexts(_)
SortedTexts(S) ==
  IF S = {} THEN <<>>
  ELSE LET m == CHOOSE x \in S : \A y \in S \ {x} : StrLess(x, y)
       IN  <<m>> \o SortedTexts(S \ {m})

\* sep.join(parts)
RECURSIVE Join(_, _)
Join(parts, sep) ==
  IF parts = <<>> THEN <<>>
  ELSE IF Len(parts) = 1 THEN parts[1]
  ELSE parts[1] \o sep \o Join(Tail(parts), sep)

\* text[i:].startswith(p)
StartsAt(text, i, p) ==
  /\ i + Len(p) - 1 <= Len(text)
  /\ \A j \in 1..Len(p) : text[i + j - 1] = p[j]

\* p in text (literal substring)
Contains(text, p) == \E i \in 1..(Len(text) + 1) : StartsAt(text, i, p)

\* text.split(sep), sep non-empty: left to right, non-overlapping.
RECURSIVE SplitFrom(_, _, _, _)
SplitFrom(text, i, cur, sep) ==
  IF i > Len(text) THEN <<cur>>
  ELSE IF StartsAt(text, i, sep)
       THEN <<cur>> \o SplitFrom(text, i + Len(sep), <<>>, sep)
       ELSE SplitFrom(text, i + 1, Append(cur, text[i]), sep)

Split(text, sep) == SplitFrom(text, 1, <<>>, sep)

\* re.search(pat, text) is not None, for patterns over the model's
\* alphabet: "." matches any character but a newline, every other
\* character of the alphabet matches itself.
RegexMatchesAt(pat, text, i) ==
  /\ i + Len(pat) - 1 <= Len(text)
  /\ \A j \in 1..Len(pat) :
       IF pat[j] = "." THEN text[i + j - 1] # "\n"
       ELSE text[i + j - 1] = pat[j]

RegexSearch(pat, text) ==
  \E i \in 1..(Len(text) + 1) : RegexMatchesAt(pat, text, i)

\* The elements of a sequence, and the order of a set by a rank.
Range(s) == {s[i] : i \in DOMAIN s}

RECURSIVE Flatten(_)
Flatten(ss) == IF ss = <<>> THEN <<>> ELSE Head(ss) \o Flatten(Tail(ss))

(* ------------------------------------------------------------------ *)
(* Floats: IEEE-754 binary64, as far as the script uses it             *)
(* ------------------------------------------------------------------ *)

\* A 60-bit natural number is three limbs <<l0, l1, l2>> of 20 bits,
\* least significant first.
Limb == 2^20

BigCmp(a, b) ==   \* -1, 0, 1
  IF a[3] # b[3] THEN (IF a[3] < b[3] THEN 0 - 1 ELSE 1)
  ELSE IF a[2] # b[2] THEN (IF a[2] < b[2] THEN 0 - 1 ELSE 1)
  ELSE IF a[1] # b[1] THEN (IF a[1] < b[1] THEN 0 - 1 ELSE 1)
  ELSE 0

\* a - b, for a >= b
BigSub(a, b) ==
  LET d0 == a[1] - b[1]
      c0 == IF d0 < 0 THEN 1 ELSE 0
      d1 == a[2] - b[2] - c0
      c1 == IF d1 < 0 THEN 1 ELSE 0
  IN  <<d0 + c0 * Limb, d1 + c1 * Limb, a[3] - b[3] - c1>>

\* a * k + c, for small k and c
BigMulAdd(a, k, c) ==
  LET p0 == a[1] * k + c
      p1 == a[2] * k + p0 \div Limb
  IN  <<p0 % Limb, p1 % Limb, a[3] * k + p1 \div Limb>>

\* floor(a / 2^sh) and a mod 2^sh, for 40 <= sh < 60
BigHigh(a, sh) == a[3] \div 2^(sh - 40)
BigLow(a, sh)  == <<a[1], a[2], a[3] % 2^(sh - 40)>>

BigZero == <<0, 0, 0>>
Big2p52 == <<0, 0, 2^12>>     \* 2^52
Big2p53 == <<0, 0, 2^13>>     \* 2^53

\* A positive finite double is [m |-> mantissa, e |-> exponent] with
\* 2^52 <= m < 2^53 and value m * 2^(e - 52); zero is FZero.
FZero == [m |-> BigZero, e |-> 0]

\* Round to nearest, ties to even: m is the 53-bit quotient, cmp compares
\* twice the remainder with the divisor.
FRound(m, e, cmp) ==
  LET up == cmp > 0 \/ (cmp = 0 /\ m[1] % 2 = 1)
      m1 == IF up THEN BigMulAdd(m, 1, 1) ELSE m
  IN  IF BigCmp(m1, Big2p53) = 0 THEN [m |-> Big2p52, e |-> e + 1]
      ELSE [m |-> m1, e |-> e]

\* The quotient of r / d after its leading one, four bits at a time:
\* r < d is the running remainder, d >= 2^52 the divisor, m the bits so
\* far, k the number of hexadecimal digits still to produce.  The digit
\* is estimated from the top limbs, from below and within one.
RECURSIVE DivDigits(_, _, _, _, _)
DivDigits(r, d, m, k, e) ==
  IF k = 0 THEN FRound(m, e, BigCmp(BigMulAdd(r, 2, 0), d))
  ELSE LET r16 == BigMulAdd(r, 16, 0)
           q0  == r16[3] \div (d[3] + 1)
           q   == IF BigCmp(BigMulAdd(d, q0 + 1, 0), r16) <= 0
                  THEN q0 + 1 ELSE q0
       IN  DivDigits(BigSub(r16, BigMulAdd(d, q, 0)), d,
                     BigMulAdd(m, 16, q), k - 1, e)

\* x / y in binary64, y # 0: the correctly rounded quotient.
FloatDiv(x, y) ==
  IF BigCmp(x.m, BigZero) = 0 THEN FZero
  ELSE IF BigCmp(x.m, y.m) >= 0
       THEN DivDigits(BigSub(x.m, y.m), y.m, <<1, 0, 0>>, 13, x.e - y.e)
       ELSE DivDigits(BigSub(BigMulAdd(x.m, 2, 0), y.m), y.m, <<1, 0, 0>>,
                      13, x.e - y.e - 1)

\* The greatest k >= 0 with 2^k <= c
RECURSIVE Log2(_)
Log2(c) == IF c < 2 THEN 0 ELSE 1 + Log2(c \div 2)

\* float(c) for an integer 0 <= c < 2^13: exact.
FromInt(c) ==
  IF c = 0 THEN FZero
  ELSE [m |-> <<0, 0, c * 2^(12 - Log2(c))>>, e |-> Log2(c)]

\* c / n for integers c >= 0, n > 0, as Python and numpy divide them.
Float(c, n) == FloatDiv(FromInt(c), FromInt(n))

\* x >= y
FloatGe(x, y) ==
  IF BigCmp(y.m, BigZero) = 0 THEN TRUE
  ELSE IF BigCmp(x.m, BigZero) = 0 THEN FALSE
  ELSE IF x.e # y.e THEN x.e > y.e
  ELSE BigCmp(x.m, y.m) >= 0

(* ------------------------------------------------------------------ *)
(* The raw table                                                       *)
(* ------------------------------------------------------------------ *)

\* A missing cell, as pandas reads an empty CSV field.
NaN == <<"NaN">>
\* A missing cell of a column that holds no text: a float NaN.
NaNNum == 0 - 1
\* None, the selectbox's value when it has no options.
None == <<"None">>

\* The columns of the CSV file, in file order.  R and C hold text, N holds
\* integers.
RawColumns == <<"R", "C", "N">>

RValues == {<<"a">>, <<"a", "b">>, <<".">>}
CValues == {<<"a">>, NaN}
NValues == {0, 1}

RowTypes == [R : RValues, C : CValues, N : NValues]

Repeat(r, n) == [i \in 1..n |-> r]

\* Rows with no text: the last one's number is neither 0 nor 1.
NoText  == [R |-> NaN, C |-> NaN, N |-> 0]
OddRows == {NoText, [R |-> NaN, C |-> NaN, N |-> 1],
            [R |-> NaN, C |-> NaN, N |-> 2]}

\* The number of copies of the first row of a table.
MainSizes == {MaxRows \div 2 - 1, MaxRows - 1}

\* The tables the file may hold: copies of one row, then one row or as
\* many rows of another kind, then at most one row without text.
Tables ==
  {Repeat(r1, n1) \o Repeat(r2, n2) \o Repeat(r3, n3) :
     r1 \in RowTypes \cup {NoText}, r2 \in RowTypes, r3 \in OddRows,
     n1 \in MainSizes, n2 \in {0, 1, MaxRows - 1}, n3 \in {0, 1}}

\* The tables of a session of several runs.
SessionTables ==
  {Repeat([R |-> <<"a">>, C |-> <<"a">>, N |-> 1], 1),
   Repeat([R |-> <<"a", "b">>, C |-> NaN, N |-> 1], 1)}

(* ------------------------------------------------------------------ *)
(* pd.read_csv / pd.get_dummies                                        *)
(* ------------------------------------------------------------------ *)

\* read_csv gives a column the object dtype when some cell of it holds
\* text; a column of numbers, or of nothing but empty cells, is numeric.
IsObject(data, c) ==
  /\ c \in {"R", "C"}
  /\ \E i \in DOMAIN data : data[i][c] # NaN

\* The distinct non-missing values of an object column.
Levels(data, c) == {data[i][c] : i \in DOMAIN data} \ {NaN}

\* The name of the indicator column of value v of column c.
DummyName(c, v) == <<c, "_">> \o v

\* pd.get_dummies(data): the columns that are not of object dtype come
\* first, unchanged; then, for each object column in turn, one 0/1
\* indicator per distinct value, in sorted order.  A missing cell sets no
\* indicator (dummy_na=False).
get_dummies(data) ==
  LET kept    == SelectSeq(RawColumns, LAMBDA c : ~IsObject(data, c))
      encoded == SelectSeq(RawColumns, LAMBDA c : IsObject(data, c))
      dummies == Flatten([k \in DOMAIN encoded |->
                    LET lv == SortedTexts(Levels(data, encoded[k]))
                    IN  [j \in DOMAIN lv |-> DummyName(encoded[k], lv[j])]])
      keptNames == [k \in DOMAIN kept |-> <<kept[k]>>]
      cols    == keptNames \o dummies
      Cell(row, name) ==
        IF Len(name) = 1
        THEN (IF name[1] = "N" THEN row[name[1]] ELSE NaNNum)
        ELSE IF row[name[1]] = SubSeq(name, 3, Len(name)) THEN 1 ELSE 0
  IN  [columns |-> cols,
       rows    |-> [i \in DOMAIN data |->
                      [name \in Range(cols) |-> Cell(data[i], name)]]]

(* ------------------------------------------------------------------ *)
(* mlxtend.frequent_patterns.apriori                                   *)
(* ------------------------------------------------------------------ *)

\* Count with np.any in place of np.all: the rows in which some column
\* of combo is 1.
CountAny(df, combo) ==
  Cardinality({i \in DOMAIN df.rows :
                 \E k \in DOMAIN combo : df.rows[i][df.columns[combo[k]]] = 1})

\* The number of rows of df in which every column of the index tuple
\* combo is 1.
Count(df, combo) ==
  Cardinality({i \in DOMAIN df.rows :
                 \A k \in DOMAIN combo : df.rows[i][df.columns[combo[k]]] = 1})

\* _support: the column sums over the number of rows, a float division.
Support(df, combo) == Float(Count(df, combo), Len(df.rows))

\* generate_new_combinations extending a combination by the one item that
\* follows its last item, not by every greater one.
generate_adjacent_combinations(old, ncols) ==
  LET types == Range(Flatten(old))
      valid(c) == SelectSeq([j \in 1..ncols |-> j],
                            LAMBDA j : j \in types /\ j = c[Len(c)] + 1)
  IN  Flatten([k \in DOMAIN old |->
         [j \in DOMAIN valid(old[k]) |-> Append(old[k], valid(old[k])[j])]])

\* generate_new_combinations: every combination of the previous level is
\* extended by every item of that level greater than its last item.
generate_new_combinations(old, ncols) ==
  LET types == Range(Flatten(old))
      valid(c) == SelectSeq([j \in 1..ncols |-> j],
                            LAMBDA j : j \in types /\ j > c[Len(c)])
  IN  Flatten([k \in DOMAIN old |->
         [j \in DOMAIN valid(old[k]) |-> Append(old[k], valid(old[k])[j])]])

\* A sequence of index tuples with their supports.
WithSupport(df, combin) ==
  [k \in DOMAIN combin |-> [combo |-> combin[k],
                            support |-> Support(df, combin[k])]]

Combos(level) == [k \in DOMAIN level |-> level[k].combo]

\* The levels after `level`: candidates are counted and kept when their
\* support reaches min_support, until a level keeps none.
RECURSIVE NextLevels(_, _, _)
NextLevels(df, level, min_support) ==
  LET combin == generate_new_combinations(Combos(level), Len(df.columns))
      kept   == SelectSeq(WithSupport(df, combin),
                  LAMBDA c : FloatGe(c.support, min_support))
  IN  IF kept = <<>> THEN <<>>
      ELSE kept \o NextLevels(df, kept, min_support)

\* The index tuples apriori keeps, level by level.
FrequentCombos(df, min_support) ==
  LET singles == SelectSeq(
                   WithSupport(df, [j \in DOMAIN df.columns |-> <<j>>]),
                   LAMBDA c : FloatGe(c.support, min_support))
  IN  IF singles = <<>> THEN <<>>
      ELSE singles \o NextLevels(df, singles, min_support)

\* The allowed values for a DataFrame are True, False, 0, 1.
ValidInput(df) ==
  \A i \in DOMAIN df.rows : \A name \in Range(df.columns) :
    df.rows[i][name] \in {0, 1}

\* apriori(df, min_support, use_colnames=True): the frame of supports and
\* itemsets (sets of column names).
apriori(df, min_support) ==
  LET combos == FrequentCombos(df, min_support)
  IN  [k \in DOMAIN combos |->
         [support  |-> combos[k].support,
          itemsets |-> {df.columns[combos[k].combo[j]] :
                          j \in DOMAIN combos[k].combo}]]

(* ------------------------------------------------------------------ *)
(* Iteration order of a frozenset                                      *)
(* ------------------------------------------------------------------ *)

\* The orders in which one process may iterate over the items of a set:
\* the order follows the string hashes, which are randomised when the
\* process starts.  An itemset holds at most one item of each raw column,
\* so the orders of the raw columns give every order of every itemset.
HashOrders ==
  {p \in [1..Len(RawColumns) -> Range(RawColumns)] : Range(p) = Range(RawColumns)}

\* The position of an item's raw column in the order h.
Rank(h, item) == CHOOSE k \in DOMAIN h : h[k] = item[1]

\* list(S) under the order h (items of one column in string order).
RECURSIVE IterOrder(_, _)
IterOrder(h, S) ==
  IF S = {} THEN <<>>
  ELSE LET m == CHOOSE x \in S : \A y \in S \ {x} :
                  \/ Rank(h, x) < Rank(h, y)
                  \/ Rank(h, x) = Rank(h, y) /\ StrLess(x, y)
       IN  <<m>> \o IterOrder(h, S \ {m})

(* ------------------------------------------------------------------ *)
(* mlxtend.frequent_patterns.association_rules                         *)
(* ------------------------------------------------------------------ *)

\* itertools.combinations(items, r), as a sequence of sequences.
RECURSIVE Combinations(_, _)
Combinations(items, r) ==
  IF r = 0 THEN << <<>> >>
  ELSE IF Len(items) < r THEN <<>>
  ELSE LET with == Combinations(Tail(items), r - 1)
       IN  [k \in DOMAIN with |-> <<Head(items)>> \o with[k]]
           \o Combinations(Tail(items), r)

\* frequent_items_dict: is the itemset a key, and its support.
HasSupport(fi, S) == \E k \in DOMAIN fi : fi[k].itemsets = S
SupportOf(fi, S)  == fi[CHOOSE k \in DOMAIN fi : fi[k].itemsets = S].support

\* The antecedents tried for the itemset K: for idx = len(K)-1 down to 1,
\* the combinations of K's items of size idx.
Antecedents(h, K) ==
  LET items == IterOrder(h, K)
      n     == Len(items)
  IN  Flatten([d \in 1..(n - 1) |->
         LET cs == Combinations(items, n - d)
         IN  [k \in DOMAIN cs |-> Range(cs[k])]])

\* The candidate rules of every frequent itemset, in the frame's order.
Candidates(h, fi) ==
  Flatten([k \in DOMAIN fi |->
     LET ants == Antecedents(h, fi[k].itemsets)
     IN  [j \in DOMAIN ants |->
            [K |-> fi[k].itemsets, A |-> ants[j],
             C |-> fi[k].itemsets \ ants[j]]]])

\* The lookup of an antecedent's or consequent's support raises KeyError
\* when the frame does not hold it.
RulesKeyError(h, fi) ==
  LET cands == Candidates(h, fi)
  IN  \E k \in DOMAIN cands :
        ~HasSupport(fi, cands[k].A) \/ ~HasSupport(fi, cands[k].C)

\* metric_dict["confidence"]: sAC / sA
Confidence(sAC, sA) == FloatDiv(sAC, sA)

Rule(fi, c) ==
  [antecedents |-> c.A,
   consequents |-> c.C,
   antecedent_support |-> SupportOf(fi, c.A),
   consequent_support |-> SupportOf(fi, c.C),
   support     |-> SupportOf(fi, c.K),
   confidence  |-> Confidence(SupportOf(fi, c.K), SupportOf(fi, c.A))]

\* association_rules(fi, metric="confidence", min_threshold): the
\* candidates whose confidence reaches the threshold.
association_rules(h, fi, min_threshold) ==
  LET cands == Candidates(h, fi)
      all   == [k \in DOMAIN cands |-> Rule(fi, cands[k])]
  IN  SelectSeq(all, LAMBDA r : FloatGe(r.confidence, min_threshold))

(* ------------------------------------------------------------------ *)
(* The rule formatter, the filter widgets and the filter               *)
(* ------------------------------------------------------------------ *)

Sep == <<",", " ">>

\* lambda x: ', '.join(list(x))
FormatSet(h, S) == Join(IterOrder(h, S), Sep)

\* rules['antecedents'] and rules['consequents'] become text.
FormatRules(h, rs) ==
  [k \in DOMAIN rs |->
     [rs[k] EXCEPT !.antecedents = FormatSet(h, rs[k].antecedents),
                   !.consequents = FormatSet(h, rs[k].consequents)]]

\* sorted(pd.unique(rules[f].str.split(', ', expand=True).stack()))
UniqueItems(rs, f) ==
  SortedTexts(UNION {Range(Split(rs[k][f], Sep)) : k \in DOMAIN rs})

\* Series.str.contains(pat): pat is a regular expression (regex=True).
StrContains(text, pat) == RegexSearch(pat, text)

\* filter_rules(rules, filter_by, selected_item, min_confidence)
filter_rules(rs, f, item, minconf) ==
  LET filtered == SelectSeq(rs, LAMBDA r : StrContains(r[f], item))
  IN  SelectSeq(filtered, LAMBDA r : FloatGe(r.confidence, minconf))

(* ------------------------------------------------------------------ *)
(* DataFrame.to_csv(index=False)                                       *)
(* ------------------------------------------------------------------ *)

Digit(d) == <<"0", "1", "2", "3", "4", "5", "6", "7", "8", "9">>[d + 1]

\* The first k fractional digits of frac / 2^sh.
RECURSIVE FracText(_, _, _)
FracText(frac, sh, k) ==
  IF k = 0 THEN <<>>
  ELSE LET t == BigMulAdd(frac, 10, 0)
       IN  <<Digit(BigHigh(t, sh))>> \o FracText(BigLow(t, sh), sh, k - 1)

\* Trailing zeros are not written, but one fractional digit always is.
RECURSIVE StripZeros(_)
StripZeros(ds) ==
  IF Len(ds) > 1 /\ ds[Len(ds)] = "0" THEN StripZeros(SubSeq(ds, 1, Len(ds) - 1))
  ELSE ds

\* The text of a double in 0 .. 1: its decimal expansion, cut after
\* FracDigits fractional digits (repr writes up to 17 significant ones).
FormatFloat(x) ==
  IF BigCmp(x.m, BigZero) = 0 THEN <<"0", ".", "0">>
  ELSE LET sh == 52 - x.e
       IN  <<Digit(BigHigh(x.m, sh)), ".">>
           \o StripZeros(FracText(BigLow(x.m, sh), sh, FracDigits))

\* The columns of the rules frame, in order.
Header ==
  <<<<"a", "n", "t", "e", "c", "e", "d", "e", "n", "t", "s">>,
    <<"c", "o", "n", "s", "e", "q", "u", "e", "n", "t", "s">>,
    <<"a", "n", "t", "e", "c", "e", "d", "e", "n", "t", " ", "s", "u", "p", "p", "o", "r", "t">>,
    <<"c", "o", "n", "s", "e", "q", "u", "e", "n", "t", " ", "s", "u", "p", "p", "o", "r", "t">>,
    <<"s", "u", "p", "p", "o", "r", "t">>,
    <<"c", "o", "n", "f", "i", "d", "e", "n", "c", "e">>>>

\* The cells of one rule, as text.
Cells(r) ==
  <<r.antecedents, r.consequents,
    FormatFloat(r.antecedent_support), FormatFloat(r.consequent_support),
    FormatFloat(r.support), FormatFloat(r.confidence)>>

\* csv.QUOTE_MINIMAL: a field is quoted when it holds the delimiter, the
\* quote character or a line break; quotes inside it are doubled.
NeedsQuote(field) ==
  \E i \in DOMAIN field : field[i] \in {",", "\"", "\n"}

\* A writer that never quotes (csv.QUOTE_NONE without an escape).
WriteUnquoted(field) == field

QuoteField(field) ==
  IF NeedsQuote(field)
  THEN <<"\"">>
       \o Flatten([i \in DOMAIN field |->
             IF field[i] = "\"" THEN <<"\"", "\"">> ELSE <<field[i]>>])
       \o <<"\"">>
  ELSE field

WriteRow(cells) ==
  Join([k \in DOMAIN cells |-> QuoteField(cells[k])], <<",">>) \o <<"\n">>

\* to_csv(index=False): the header line, then one line per row.
to_csv(rs) ==
  WriteRow(Header) \o Flatten([k \in DOMAIN rs |-> WriteRow(Cells(rs[k]))])

(* ------------------------------------------------------------------ *)
(* The script                                                          *)
(* ------------------------------------------------------------------ *)

FilePath == "warranty-contract-attrition.csv"

\* min_support=0.1 and min_threshold=0.2, as doubles.
MinSupport   == Float(1, 10)
MinThreshold == Float(2, 10)

\* The positions of the confidence slider that are tried, in hundredths
\* (0.0 .. 1.0, default 0.2).
SliderValues == {20, 90}

VARIABLES
  file,                  \* the table in the CSV file
  cache,                 \* st.cache_data's entries of load_data, by argument
  hashorder,             \* this process's iteration order of sets
  earlier,               \* (itemset, text) pairs an earlier process rendered
  pc,                    \* the statement the script is at
  error,                 \* the exception that ended the run, or ""
  read_file,             \* did the last load_data call read the file
  raw_data,
  one_hot_encoded_data,
  frequent_itemsets,
  itemsets_of_rules,     \* the rules as association_rules returned them
  rules,
  filter_by,
  unique_items,
  selected_item,
  min_confidence,        \* in hundredths
  filtered_rules,
  csv

script == <<raw_data, one_hot_encoded_data, frequent_itemsets,
            itemsets_of_rules, rules, filter_by, unique_items,
            selected_item, min_confidence, filtered_rules, csv>>
vars == <<file, cache, hashorder, earlier, pc, error, read_file, script>>

Fresh ==
  /\ pc = "load"
  /\ error = ""
  /\ read_file = FALSE
  /\ raw_data = <<>>
  /\ one_hot_encoded_data = <<>>
  /\ frequent_itemsets = <<>>
  /\ itemsets_of_rules = <<>>
  /\ rules = <<>>
  /\ filter_by = ""
  /\ unique_items = <<>>
  /\ selected_item = None
  /\ min_confidence = 20
  /\ filtered_rules = <<>>
  /\ csv = <<>>

Init ==
  /\ file \in Tables
  /\ cache = <<>>
  /\ hashorder \in HashOrders
  /\ earlier = {}
  /\ Fresh

InitSession ==
  /\ file \in SessionTables
  /\ cache = <<>>
  /\ hashorder \in HashOrders
  /\ earlier = {}
  /\ Fresh

\* An uncaught exception ends the run.
Raise(e) == pc' = "crashed" /\ error' = e

\* raw_data = load_data('warranty-contract-attrition.csv'): st.cache_data
\* keys the entry by the argument, the path.
LoadData ==
  /\ pc = "load"
  /\ IF FilePath \in DOMAIN cache
     THEN /\ raw_data' = cache[FilePath]
          /\ read_file' = FALSE
          /\ cache' = cache
     ELSE /\ raw_data' = file
          /\ read_file' = TRUE
          /\ cache' = [p \in {FilePath} |-> file]
  /\ pc' = "encode"
  /\ UNCHANGED <<file, hashorder, earlier, error, one_hot_encoded_data,
                 frequent_itemsets, itemsets_of_rules, rules, filter_by,
                 unique_items, selected_item, min_confidence, filtered_rules,
                 csv>>

\* one_hot_encoded_data = pd.get_dummies(raw_data)
GetDummies ==
  /\ pc = "encode"
  /\ one_hot_encoded_data' = get_dummies(raw_data)
  /\ pc' = "mine"
  /\ UNCHANGED <<file, cache, hashorder, earlier, error, read_file, raw_data,
                 frequent_itemsets, itemsets_of_rules, rules, filter_by,
                 unique_items, selected_item, min_confidence, filtered_rules,
                 csv>>

\* frequent_itemsets = apriori(one_hot_encoded_data, min_support=0.1, ...)
Apriori ==
  /\ pc = "mine"
  /\ IF ValidInput(one_hot_encoded_data)
     THEN /\ frequent_itemsets' = apriori(one_hot_encoded_data, MinSupport)
          /\ pc' = "derive"
          /\ error' = error
     ELSE /\ Raise("ValueError")
          /\ frequent_itemsets' = frequent_itemsets
  /\ UNCHANGED <<file, cache, hashorder, earlier, read_file, raw_data,
                 one_hot_encoded_data, itemsets_of_rules, rules, filter_by,
                 unique_items, selected_item, min_confidence, filtered_rules,
                 csv>>

\* rules = association_rules(frequent_itemsets, metric="confidence",
\*                           min_threshold=0.2)
AssociationRules ==
  /\ pc = "derive"
  /\ IF frequent_itemsets = <<>>
     THEN Raise("ValueError") /\ UNCHANGED <<rules, itemsets_of_rules>>
     ELSE IF RulesKeyError(hashorder, frequent_itemsets)
     THEN Raise("KeyError") /\ UNCHANGED <<rules, itemsets_of_rules>>
     ELSE /\ rules' = association_rules(hashorder, frequent_itemsets,
                                        MinThreshold)
          /\ itemsets_of_rules' = rules'
          /\ pc' = "format"
          /\ error' = error
  /\ UNCHANGED <<file, cache, hashorder, earlier, read_file, raw_data,
                 one_hot_encoded_data, frequent_itemsets, filter_by,
                 unique_items, selected_item, min_confidence, filtered_rules,
                 csv>>

\* rules['antecedents'] = rules['antecedents'].apply(...), and the same
\* for the consequents.
Format ==
  /\ pc = "format"
  /\ rules' = FormatRules(hashorder, rules)
  /\ pc' = "widgets"
  /\ UNCHANGED <<file, cache, hashorder, earlier, error, read_file, raw_data,
                 one_hot_encoded_data, frequent_itemsets, itemsets_of_rules,
                 filter_by, unique_items, selected_item, min_confidence,
                 filtered_rules, csv>>

\* The sidebar: the radio, the selectbox over the sorted unique items
\* (None when there are none) and the slider.
Widgets ==
  /\ pc = "widgets"
  /\ \E f \in {"antecedents", "consequents"}, m \in SliderValues :
       /\ filter_by' = f
       /\ unique_items' = UniqueItems(rules, f)
       /\ IF unique_items' = <<>> THEN selected_item' = None
          ELSE selected_item' \in Range(unique_items')
       /\ min_confidence' = m
  /\ pc' = "filter"
  /\ UNCHANGED <<file, cache, hashorder, earlier, error, read_file, raw_data,
                 one_hot_encoded_data, frequent_itemsets, itemsets_of_rules,
                 rules, filtered_rules, csv>>

\* filtered_rules = filter_rules(rules, filter_by, selected_item,
\*                               min_confidence); re.compile(None) raises.
FilterRules ==
  /\ pc = "filter"
  /\ IF selected_item = None
     THEN Raise("TypeError") /\ filtered_rules' = filtered_rules
     ELSE /\ filtered_rules' = filter_rules(rules, filter_by, selected_item,
                                            Float(min_confidence, 100))
          /\ pc' = "export"
          /\ error' = error
  /\ UNCHANGED <<file, cache, hashorder, earlier, read_file, raw_data,
                 one_hot_encoded_data, frequent_itemsets, itemsets_of_rules,
                 rules, filter_by, unique_items, selected_item,
                 min_confidence, csv>>

\* csv = filtered_rules.to_csv(index=False)
ToCsv ==
  /\ pc = "export"
  /\ csv' = to_csv(filtered_rules)
  /\ pc' = "done"
  /\ UNCHANGED <<file, cache, hashorder, earlier, error, read_file, raw_data,
                 one_hot_encoded_data, frequent_itemsets, itemsets_of_rules,
                 rules, filter_by, unique_items, selected_item,
                 min_confidence, filtered_rules>>

Ended == pc \in {"done", "crashed"}

Reset ==
  /\ pc' = "load"
  /\ error' = ""
  /\ read_file' = FALSE
  /\ raw_data' = <<>>
  /\ one_hot_encoded_data' = <<>>
  /\ frequent_itemsets' = <<>>
  /\ itemsets_of_rules' = <<>>
  /\ rules' = <<>>
  /\ filter_by' = ""
  /\ unique_items' = <<>>
  /\ selected_item' = None
  /\ min_confidence' = 20
  /\ filtered_rules' = <<>>
  /\ csv' = <<>>

\* A widget interaction: Streamlit runs the script again, from the top, in
\* the same process.
Rerun ==
  /\ Ended
  /\ Reset
  /\ UNCHANGED <<file, cache, hashorder, earlier>>

\* What the run rendered: each itemset of a rule with its text.
Rendered ==
  IF pc \in {"load", "encode", "mine", "derive", "format"} \/ rules = <<>>
  THEN {}
  ELSE UNION {{<<itemsets_of_rules[k].antecedents, rules[k].antecedents>>,
               <<itemsets_of_rules[k].consequents, rules[k].consequents>>} :
                k \in DOMAIN rules}

\* The app is started again: a new process, with an empty cache and its
\* own string hashes.
Restart ==
  /\ Ended
  /\ Reset
  /\ cache' = <<>>
  /\ hashorder' \in HashOrders
  /\ earlier' = Rendered
  /\ UNCHANGED file

\* The file is written while the app is up.
ChangeFile ==
  /\ Ended
  /\ file' \in SessionTables \ {file}
  /\ UNCHANGED <<cache, hashorder, earlier, pc, error, read_file, script>>

Run ==
  \/ LoadData
  \/ GetDummies
  \/ Apriori
  \/ AssociationRules
  \/ Format
  \/ Widgets
  \/ FilterRules
  \/ ToCsv

\* One run of the script in a new process.
Next == Run
Spec == Init /\ [][Next]_vars

\* A session: runs, reruns, restarts and changes of the file.
NextSession ==
  \/ Run
  \/ Rerun
  \/ Restart
  \/ ChangeFile
SpecSession == InitSession /\ [][NextSession]_vars

(* ------------------------------------------------------------------ *)
(* A standard reader of delimited text (csv.reader, default dialect)   *)
(* ------------------------------------------------------------------ *)

\* One field from position i: its text, the position after it, and
\* whether it ended the record.
RECURSIVE ParseField(_, _, _, _)
ParseField(text, i, st, cur) ==
  IF i > Len(text) THEN [val |-> cur, next |-> i, eol |-> TRUE]
  ELSE LET c == text[i] IN
    CASE st = "start" ->
           IF c = "\"" THEN ParseField(text, i + 1, "quoted", cur)
           ELSE IF c = "," THEN [val |-> cur, next |-> i + 1, eol |-> FALSE]
           ELSE IF c = "\n" THEN [val |-> cur, next |-> i + 1, eol |-> TRUE]
           ELSE ParseField(text, i + 1, "unquoted", Append(cur, c))
      [] st = "unquoted" ->
           IF c = "," THEN [val |-> cur, next |-> i + 1, eol |-> FALSE]
           ELSE IF c = "\n" THEN [val |-> cur, next |-> i + 1, eol |-> TRUE]
           ELSE ParseField(text, i + 1, "unquoted", Append(cur, c))
      [] st = "quoted" ->
           IF c = "\"" THEN ParseField(text, i + 1, "quote_in_quoted", cur)
           ELSE ParseField(text, i + 1, "quoted", Append(cur, c))
      [] OTHER ->
           IF c = "\"" THEN ParseField(text, i + 1, "quoted", Append(cur, c))
           ELSE IF c = "," THEN [val |-> cur, next |-> i + 1, eol |-> FALSE]
           ELSE IF c = "\n" THEN [val |-> cur, next |-> i + 1, eol |-> TRUE]
           ELSE ParseField(text, i + 1, "unquoted", Append(cur, c))

RECURSIVE ParseRecord(_, _)
ParseRecord(text, i) ==
  LET f == ParseField(text, i, "start", <<>>)
  IN  IF f.eol THEN [fields |-> <<f.val>>, next |-> f.next]
      ELSE LET rest == ParseRecord(text, f.next)
           IN  [fields |-> <<f.val>> \o rest.fields, next |-> rest.next]

RECURSIVE ParseRows(_, _)
ParseRows(text, i) ==
  IF i > Len(text) THEN <<>>
  ELSE LET r == ParseRecord(text, i)
       IN  <<r.fields>> \o ParseRows(text, r.next)

CsvParse(text) == ParseRows(text, 1)

(* ------------------------------------------------------------------ *)
(* Properties                                                          *)
(* ------------------------------------------------------------------ *)

\* Exact counts and supports, by the definitions of the data model.
ExactCount(df, S) ==
  Cardinality({i \in DOMAIN df.rows : \A name \in S : df.rows[i][name] = 1})

\* The non-empty sets of columns whose support is at least num / den.
FrequentSets(df, num, den) ==
  {S \in SUBSET Range(df.columns) \ {{}} :
     den * ExactCount(df, S) >= num * Len(df.rows)}

ItemsetsOf(fi) == {fi[k].itemsets : k \in DOMAIN fi}

\* C1: filter_rules returns exactly the rules whose selected field
\* contains the selected value as a substring and whose confidence is at
\* least the minimum.
C1_FilterBySubstring ==
  pc = "export" =>
    filtered_rules =
      SelectSeq(rules, LAMBDA r :
        /\ Contains(r[filter_by], selected_item)
        /\ FloatGe(r.confidence, Float(min_confidence, 100)))

\* C2: the miner returns exactly the non-empty sets of columns whose
\* support is at least 0.1, each once; and at threshold 0.6 exactly those
\* whose support is at least 0.6.
C2_MinerReturnsFrequentSets ==
  pc = "derive" =>
    /\ ItemsetsOf(frequent_itemsets)
         = FrequentSets(one_hot_encoded_data, 1, 10)
    /\ Len(frequent_itemsets) = Cardinality(ItemsetsOf(frequent_itemsets))
    /\ ItemsetsOf(apriori(one_hot_encoded_data, Float(6, 10)))
         = FrequentSets(one_hot_encoded_data, 6, 10)

\* A mined table with a frequent pair, an observed set that is not
\* frequent, and a pair that is frequent at 0.1 but not at 0.6.
C2_Witness ==
  /\ pc = "derive"
  /\ \E S \in ItemsetsOf(frequent_itemsets) : Cardinality(S) >= 2
  /\ \E S \in SUBSET Range(one_hot_encoded_data.columns) \ {{}} :
       /\ ExactCount(one_hot_encoded_data, S) > 0
       /\ S \notin ItemsetsOf(frequent_itemsets)
  /\ \E S \in FrequentSets(one_hot_encoded_data, 1, 10) :
       /\ Cardinality(S) = 2
       /\ S \notin FrequentSets(one_hot_encoded_data, 6, 10)

\* C3: every non-empty subset of a returned itemset is returned, with a
\* support that is at least the itemset's.
C3_DownwardClosed ==
  pc = "derive" =>
    \A k \in DOMAIN frequent_itemsets :
      \A T \in SUBSET frequent_itemsets[k].itemsets \ {{}} :
        \E j \in DOMAIN frequent_itemsets :
          /\ frequent_itemsets[j].itemsets = T
          /\ FloatGe(frequent_itemsets[j].support,
                     frequent_itemsets[k].support)

\* A returned itemset of three items with a subset of greater support.
C3_Witness ==
  /\ pc = "derive"
  /\ \E k, j \in DOMAIN frequent_itemsets :
       /\ Cardinality(frequent_itemsets[k].itemsets) = 3
       /\ frequent_itemsets[j].itemsets \subseteq frequent_itemsets[k].itemsets
       /\ ~FloatGe(frequent_itemsets[k].support, frequent_itemsets[j].support)

\* C4: the rules are exactly the splits (A, C) of the frequent itemsets
\* with support(A u C) / support(A) >= 0.2, and each carries that
\* confidence, which is at most 1.
C4_RulesAreConfidentSplits ==
  pc = "format" =>
    LET df == one_hot_encoded_data
        n  == Len(df.rows)
        want == UNION {{<<A, K \ A>> :
                          A \in {B \in SUBSET K \ {{}, K} :
                                   5 * ExactCount(df, K) >= ExactCount(df, B)}} :
                       K \in ItemsetsOf(frequent_itemsets)}
    IN  /\ {<<rules[k].antecedents, rules[k].consequents>> :
              k \in DOMAIN rules} = want
        /\ \A k \in DOMAIN rules :
             /\ rules[k].confidence
                  = FloatDiv(
                      Float(ExactCount(df, rules[k].antecedents
                                             \cup rules[k].consequents), n),
                      Float(ExactCount(df, rules[k].antecedents), n))
             /\ FloatGe(FromInt(1), rules[k].confidence)

\* C5: load_data returns the table the file holds when it is called.
C5_LoadedTableIsCurrent ==
  pc = "encode" => raw_data = file

\* C6: with a valid matrix, a run in which no itemset is frequent or no
\* rule is kept does not end in an exception.
C6_EmptyResultDoesNotCrash ==
  ~(/\ pc = "crashed"
    /\ ValidInput(one_hot_encoded_data)
    /\ (frequent_itemsets = <<>> \/ rules = <<>>))

\* C7: a standard reader turns the exported text back into the header and
\* the rows of the filtered rules, in order.
C7_ExportRoundTrips ==
  pc = "done" =>
    CsvParse(csv)
      = <<Header>> \o [k \in DOMAIN filtered_rules |-> Cells(filtered_rules[k])]

\* An export of several rules, one with two items in its antecedent.
C7_Witness ==
  /\ pc = "done"
  /\ Len(filtered_rules) >= 2
  /\ \E k \in DOMAIN filtered_rules :
       Contains(filtered_rules[k].antecedents, Sep)

\* The text of a raw cell, and whether the cell is missing.
CellText(c, v) == IF c = "N" THEN <<Digit(v)>> ELSE v
CellMissing(c, v) == IF c = "N" THEN FALSE ELSE v = NaN

\* C8: every raw column has one 0/1 indicator column per observed value;
\* in every row the indicators of a column sum to 1 when the row has a
\* value for it and to 0 when it has none; the rows are the raw rows.
C8_EveryColumnOneHot ==
  pc = "mine" =>
    /\ Len(one_hot_encoded_data.rows) = Len(raw_data)
    /\ \A c \in Range(RawColumns) :
         LET names == {DummyName(c, CellText(c, raw_data[i][c])) :
                         i \in {i \in DOMAIN raw_data :
                                  ~CellMissing(c, raw_data[i][c])}}
         IN  /\ names \subseteq Range(one_hot_encoded_data.columns)
             /\ \A i \in DOMAIN raw_data :
                  Cardinality({name \in names :
                                 one_hot_encoded_data.rows[i][name] = 1})
                    = IF CellMissing(c, raw_data[i][c]) THEN 0 ELSE 1

\* C9: a set of items is rendered as the same text in every process.
C9_SameTextForSameSet ==
  \A a \in Rendered, b \in earlier : a[1] = b[1] => a[2] = b[2]

\* C10: every rule returned for a selectable item has that item among the
\* items of its selected field, and with a minimum confidence of at most
\* 0.2 some rule is returned.
C10_SelectedItemIsAnItem ==
  pc = "export" =>
    /\ \A k \in DOMAIN filtered_rules :
         selected_item \in Range(Split(filtered_rules[k][filter_by], Sep))
    /\ min_confidence <= 20 => filtered_rules # <<>>

====
